---- MODULE Spec2Model ----
(***************************************************************************)
(* Data-Quality-Annotator-Explainer.                                       *)
(*                                                                         *)
(*   /api/analyze        parseCSV, analyzeDataQuality, POST                *)
(*   /api/generate-fix   generateFixCode, POST                             *)
(*   page component      generateFix (attaches fixCode to the shown issue) *)
(*                                                                         *)
(* JavaScript strings are sequences of one-character strings, so that      *)
(* split, trim, replace, parseFloat, toLowerCase, includes and endsWith    *)
(* are computed character by character.                                    *)
(***************************************************************************)
EXTENDS Integers, Sequences, FiniteSets, TLC

VARIABLES
    file,       \* the uploaded file (the form's "file" entry), or NoFile; the
                \* body of a CSV file is its text, the body of a JSON file is
                \* what JSON.parse makes of its text: a value or a SyntaxError
    pc,         \* position of the analyze request's handler
    data,       \* POST's `data`
    issues,     \* POST's `issues`
    response,   \* the analyze request's response, or NoResponse
    analysis,   \* the page's `analysis` state
    pending,    \* fix requests sent and not yet answered by the server
    replies,    \* fix responses on their way back to the page
    asked,      \* history: the issues a fix was requested for
    requests,   \* analyze requests in flight together: each one's file,
                \* position, summary call and response
    locals      \* the `data` and `issues` of each invocation of POST

vars == <<file, pc, data, issues, response, analysis, pending, replies, asked,
          requests, locals>>

----------------------------------------------------------------------------
(* Bounds of the checked inputs.                                           *)

MaxTextLen == 5     \* characters of an exhaustively enumerated CSV text
MaxPrefix == 2      \* freely chosen leading cells of a tall column
MaxPad == 20        \* repetitions of the filler row of a tall table
MaxCols == 3        \* columns of a wide table
MaxWidePad == 4     \* repetitions of the filler row of a wide table
MaxJsonRows == 2    \* elements of a JSON array
MaxNameLen == 4     \* characters of an exhaustively enumerated file name
MaxFixes == 3       \* fix requests sent for one displayed analysis
MaxRequests == 2    \* analyze requests in flight together

----------------------------------------------------------------------------
(* Strings.                                                                 *)

Range(s) == {s[i] : i \in DOMAIN s}

SeqsUpTo(S, n) == UNION {[1..k -> S] : k \in 0..n}

Whitespace == {" ", "\t", "\r", "\n"}

Digits == <<"0", "1", "2", "3", "4", "5", "6", "7", "8", "9">>

UpperCase == <<"A", "B", "C", "D", "E", "F", "G", "H", "I", "J", "K", "L", "M",
               "N", "O", "P", "Q", "R", "S", "T", "U", "V", "W", "X", "Y", "Z">>

LowerCase == <<"a", "b", "c", "d", "e", "f", "g", "h", "i", "j", "k", "l", "m",
               "n", "o", "p", "q", "r", "s", "t", "u", "v", "w", "x", "y", "z">>

\* String.prototype.toLowerCase
toLowerCase(s) ==
    [i \in DOMAIN s |->
        IF \E k \in DOMAIN UpperCase : UpperCase[k] = s[i]
        THEN LowerCase[CHOOSE k \in DOMAIN UpperCase : UpperCase[k] = s[i]]
        ELSE s[i]]

\* String.prototype.includes
includes(s, sub) ==
    \E i \in 0..(Len(s) - Len(sub)) : SubSeq(s, i + 1, i + Len(sub)) = sub

\* String.prototype.endsWith
endsWith(s, suffix) ==
    /\ Len(suffix) <= Len(s)
    /\ SubSeq(s, Len(s) - Len(suffix) + 1, Len(s)) = suffix

\* String.prototype.trim
RECURSIVE trim(_)
trim(s) ==
    IF s = <<>> THEN s
    ELSE IF Head(s) \in Whitespace THEN trim(Tail(s))
    ELSE IF s[Len(s)] \in Whitespace THEN trim(SubSeq(s, 1, Len(s) - 1))
    ELSE s

\* String.prototype.split with a one-character separator
RECURSIVE split(_, _)
split(s, sep) ==
    IF \A i \in DOMAIN s : s[i] # sep THEN <<s>>
    ELSE LET i == CHOOSE j \in DOMAIN s : s[j] = sep /\ \A k \in 1..(j - 1) : s[k] # sep
         IN  <<SubSeq(s, 1, i - 1)>> \o split(SubSeq(s, i + 1, Len(s)), sep)

\* s.replace(/"/g, "")
stripQuotes(s) == SelectSeq(s, LAMBDA c : c # "\"")

\* Array.prototype.join with a one-character separator
RECURSIVE join(_, _)
join(parts, sep) ==
    IF parts = <<>> THEN <<>>
    ELSE IF Len(parts) = 1 THEN parts[1]
    ELSE parts[1] \o <<sep>> \o join(Tail(parts), sep)

----------------------------------------------------------------------------
(* JavaScript values.  A cell of a row is a string, a number, null or       *)
(* undefined (the key is absent); a row is an object, whose entries are     *)
(* kept in insertion order, or a JSON null or number.                       *)

Str(s) == [t |-> "str", s |-> s]
Num(n) == [t |-> "num", n |-> n]
Null == [t |-> "null"]
Undefined == [t |-> "undefined"]
Obj(entries) == [t |-> "obj", e |-> entries]

\* Object.keys of a row; column names are never integer-like, so the order
\* is the order in which the keys were first written
keys(row) == IF row.t = "obj" THEN [i \in DOMAIN row.e |-> row.e[i].k] ELSE <<>>

\* row[column]
get(row, column) ==
    IF row.t = "obj" /\ \E i \in DOMAIN row.e : row.e[i].k = column
    THEN row.e[CHOOSE i \in DOMAIN row.e : row.e[i].k = column].v
    ELSE Undefined

\* mutant: a header name that repeats adds a second entry
putAppend(row, header, value) == Obj(Append(row.e, [k |-> header, v |-> value]))

\* row[header] = value
put(row, header, value) ==
    IF \E i \in DOMAIN row.e : row.e[i].k = header
    THEN Obj([i \in DOMAIN row.e |->
                 IF row.e[i].k = header THEN [k |-> header, v |-> value] ELSE row.e[i]])
    ELSE Obj(Append(row.e, [k |-> header, v |-> value]))

----------------------------------------------------------------------------
(* /api/analyze: parseCSV                                                   *)

cleanFields(line) ==
    LET parts == split(line, ",")
    IN  [i \in DOMAIN parts |-> stripQuotes(trim(parts[i]))]

RECURSIVE makeRow(_, _, _)
makeRow(headers, values, index) ==
    IF index = 0 THEN Obj(<<>>)
    ELSE put(makeRow(headers, values, index - 1), headers[index], Str(values[index]))

\* mutant: a line with surplus fields is kept
keepLineAtLeast(headers, values) == Len(values) >= Len(headers)

keepLine(headers, values) == Len(values) = Len(headers)

RECURSIVE parseLines(_, _, _)
parseLines(lines, headers, i) ==
    IF i > Len(lines) THEN <<>>
    ELSE LET values == cleanFields(lines[i])
         IN  (IF keepLine(headers, values)
              THEN <<makeRow(headers, values, Len(headers))>>
              ELSE <<>>) \o parseLines(lines, headers, i + 1)

nonBlankLines(csvText) == SelectSeq(split(csvText, "\n"), LAMBDA line : trim(line) # <<>>)

parseCSV(csvText) ==
    LET lines == nonBlankLines(csvText)
    IN  IF Len(lines) = 0 THEN <<>>
        ELSE parseLines(lines, cleanFields(lines[1]), 2)

----------------------------------------------------------------------------
(* /api/analyze: analyzeDataQuality                                         *)

S_null == <<"n", "u", "l", "l">>
S_undefined == <<"u", "n", "d", "e", "f", "i", "n", "e", "d">>
S_id == <<"i", "d">>

\* !v
falsy(v) ==
    \/ v.t \in {"undefined", "null"}
    \/ v.t = "str" /\ v.s = <<>>
    \/ v.t = "num" /\ v.n = 0

\* the filter of the missing-values check:
\* !row[column] || row[column] === "" || row[column] === "null" || row[column] === "undefined"
isMissingCell(v) == falsy(v) \/ v = Str(<<>>) \/ v = Str(S_null) \/ v = Str(S_undefined)

\* the filter of the duplicates check: .filter((v) => v)
isValueCell(v) == ~falsy(v)

NaN == [nan |-> TRUE]
Finite(n) == [nan |-> FALSE, n |-> n]

RECURSIVE digitsValue(_, _)
\* the value of the longest prefix of decimal digits of s, after acc
digitsValue(s, acc) ==
    IF s = <<>> \/ ~\E d \in DOMAIN Digits : Digits[d] = s[1] THEN acc
    ELSE digitsValue(Tail(s), 10 * acc + (CHOOSE d \in DOMAIN Digits : Digits[d] = s[1]) - 1)

RECURSIVE skipWhitespace(_)
skipWhitespace(s) ==
    IF s # <<>> /\ Head(s) \in Whitespace THEN skipWhitespace(Tail(s)) ELSE s

\* Number.parseFloat of a cell: the longest numeric prefix of its string
\* form; cells hold no ".", "e" exponent or "Infinity", so the prefix is an
\* optional sign and decimal digits
parseFloat(v) ==
    IF v.t = "num" THEN Finite(v.n)
    ELSE IF v.t # "str" THEN NaN
    ELSE LET s == skipWhitespace(v.s)
             signed == s # <<>> /\ Head(s) \in {"-", "+"}
             body == IF signed THEN Tail(s) ELSE s
         IN  IF body = <<>> \/ ~\E d \in DOMAIN Digits : Digits[d] = body[1] THEN NaN
             ELSE IF signed /\ Head(s) = "-" THEN Finite(0 - digitsValue(body, 0))
             ELSE Finite(digitsValue(body, 0))

RECURSIVE insertSorted(_, _)
insertSorted(sorted, x) ==
    IF sorted = <<>> THEN <<x>>
    ELSE IF x - Head(sorted) < 0 THEN <<x>> \o sorted
    ELSE <<Head(sorted)>> \o insertSorted(Tail(sorted), x)

RECURSIVE sortAscending(_)
\* numericValues.sort((a, b) => a - b)
sortAscending(xs) ==
    IF xs = <<>> THEN <<>>
    ELSE insertSorted(sortAscending(SubSeq(xs, 1, Len(xs) - 1)), xs[Len(xs)])

\* (count / total) * 100, kept as the exact fraction num/den; for every
\* count <= total < 400 the double (count / total) * 100 compares with 5, 10,
\* 20 and 100 as the exact fraction does
Percentage(count, total) == [num |-> 100 * count, den |-> total]

\* percentage > threshold
exceeds(percentage, threshold) == percentage.num > threshold * percentage.den

missingSeverity(percentage) ==
    IF exceeds(percentage, 20) THEN "Critical"
    ELSE IF exceeds(percentage, 5) THEN "Warning"
    ELSE "Info"

missingCount(rows, column) ==
    Len(SelectSeq(rows, LAMBDA row : isMissingCell(get(row, column))))

missingIssue(rows, column) ==
    LET count == missingCount(rows, column)
        percentage == Percentage(count, Len(rows))
    IN  IF count > 0
        THEN <<[column |-> column,
                severity |-> missingSeverity(percentage),
                type |-> "Missing Values",
                description |-> <<count, "missing values found">>,
                count |-> count,
                percentage |-> percentage,
                explanation |-> <<"Missing values in", column>>,
                recommendation |->
                    IF exceeds(percentage, 10)
                    THEN <<"Consider data imputation strategies", column>>
                    ELSE <<"Monitor data collection", column>>]>>
        ELSE <<>>

columnValues(rows, column) ==
    SelectSeq([i \in DOMAIN rows |-> get(rows[i], column)], isValueCell)

isIdColumn(column) == includes(toLowerCase(column), S_id)

duplicateIssue(rows, column) ==
    LET values == columnValues(rows, column)
        uniqueValues == Range(values)
        duplicateCount == Len(values) - Cardinality(uniqueValues)
    IN  IF duplicateCount > 0 /\ isIdColumn(column)
        THEN <<[column |-> column,
                severity |-> "Critical",
                type |-> "Duplicate Values",
                description |-> <<duplicateCount, "duplicate values in ID column">>,
                count |-> duplicateCount,
                percentage |-> Percentage(duplicateCount, Len(rows)),
                explanation |-> <<"Duplicate IDs indicate data integrity issues">>,
                recommendation |-> <<"Implement unique constraints", column>>]>>
        ELSE <<>>

numericValues(rows, column) ==
    LET parsed == SelectSeq([i \in DOMAIN rows |-> parseFloat(get(rows[i], column))],
                            LAMBDA v : ~v.nan)
    IN  [i \in DOMAIN parsed |-> parsed[i].n]

\* sorted[Math.floor(sorted.length * 0.25)]
q1Of(sorted) == sorted[((Len(sorted) * 25) \div 100) + 1]

\* sorted[Math.floor(sorted.length * 0.75)]
q3Of(sorted) == sorted[((Len(sorted) * 75) \div 100) + 1]

\* v < q1 - 1.5 * iqr || v > q3 + 1.5 * iqr, both sides doubled
isOutlier(v, q1, q3) ==
    LET iqr == q3 - q1
    IN  2 * v < 2 * q1 - 3 * iqr \/ 2 * v > 2 * q3 + 3 * iqr

\* mutant: the outliers as a percentage of all rows
outlierPercentageOfRows(outlierCount, numericCount, totalRows) ==
    Percentage(outlierCount, totalRows)

outlierPercentage(outlierCount, numericCount, totalRows) ==
    Percentage(outlierCount, numericCount)

outlierSeverity(percentage) == IF exceeds(percentage, 10) THEN "Warning" ELSE "Info"

outlierIssue(rows, column) ==
    LET numeric == numericValues(rows, column)
    IN  IF Len(numeric) > 0
        THEN LET sorted == sortAscending(numeric)
                 q1 == q1Of(sorted)
                 q3 == q3Of(sorted)
                 outliers == SelectSeq(sorted, LAMBDA v : isOutlier(v, q1, q3))
                 percentage == outlierPercentage(Len(outliers), Len(numeric), Len(rows))
             IN  IF Len(outliers) > 0
                 THEN <<[column |-> column,
                         severity |-> outlierSeverity(percentage),
                         type |-> "Outliers",
                         description |-> <<Len(outliers), "potential outliers detected">>,
                         count |-> Len(outliers),
                         percentage |-> percentage,
                         explanation |-> <<"Statistical outliers", column>>,
                         recommendation |-> <<"Review outlier values", column>>]>>
                 ELSE <<>>
        ELSE <<>>

\* the body of columns.forEach for one column
columnIssues(rows, column) ==
    missingIssue(rows, column) \o duplicateIssue(rows, column) \o outlierIssue(rows, column)

RECURSIVE forEachColumn(_, _, _)
forEachColumn(rows, columns, i) ==
    IF i > Len(columns) THEN <<>>
    ELSE columnIssues(rows, columns[i]) \o forEachColumn(rows, columns, i + 1)

\* Object.keys(null) and null[column] throw a TypeError
analysisThrows(rows) ==
    /\ rows # <<>>
    /\ \/ rows[1].t = "null"
       \/ keys(rows[1]) # <<>> /\ \E i \in DOMAIN rows : rows[i].t = "null"

RECURSIVE forEachDetector(_, _, _, _)
forEachDetector(rows, columns, detector, i) ==
    IF i > Len(columns) THEN <<>>
    ELSE (CASE detector = 1 -> missingIssue(rows, columns[i])
            [] detector = 2 -> duplicateIssue(rows, columns[i])
            [] detector = 3 -> outlierIssue(rows, columns[i]))
         \o forEachDetector(rows, columns, detector, i + 1)

\* mutant: one pass over the columns per detector
analyzeByDetector(rows) ==
    IF rows = <<>> THEN <<>>
    ELSE forEachDetector(rows, keys(rows[1]), 1, 1)
            \o forEachDetector(rows, keys(rows[1]), 2, 1)
            \o forEachDetector(rows, keys(rows[1]), 3, 1)

analyzeDataQuality(rows) ==
    IF rows = <<>> THEN <<>> ELSE forEachColumn(rows, keys(rows[1]), 1)

----------------------------------------------------------------------------
(* /api/analyze: POST                                                       *)

NoFile == [present |-> FALSE]
NoResponse == [status |-> 0]
NoAnalysis == [shown |-> FALSE]

S_dotCsv == <<".", "c", "s", "v">>
S_dotJson == <<".", "j", "s", "o", "n">>

\* file.type === "text/csv" || file.name.endsWith(".csv")
isCsvFile(f) == f.type = "text/csv" \/ endsWith(f.name, S_dotCsv)

\* file.type === "application/json" || file.name.endsWith(".json")
isJsonFile(f) == f.type = "application/json" \/ endsWith(f.name, S_dotJson)

\* Array.isArray(jsonData) ? jsonData : [jsonData]
asRows(jsonData) == IF jsonData.t = "array" THEN jsonData.items ELSE <<jsonData>>

\* the mock returns its dataset-summary text for a prompt that includes
\* "dataset summary", which the prompt of POST always does
callGeminiAPI(prompt) ==
    IF prompt.lead = "Generate a dataset summary for: "
    THEN "This dataset appears to be a customer database ..."
    ELSE "Data quality issue detected that requires attention for accurate analysis."

summaryPrompt(rows) ==
    [lead |-> "Generate a dataset summary for: ",
     sample |-> SubSeq(rows, 1, IF Len(rows) < 3 THEN Len(rows) ELSE 3)]

countSeverity(found, severity) ==
    Len(SelectSeq(found, LAMBDA i : i.severity = severity))

max(a, b) == IF a >= b THEN a ELSE b

\* mutant: the score without Math.max(0, ...)
overallScoreUnclamped(found) ==
    100 - countSeverity(found, "Critical") * 20 - countSeverity(found, "Warning") * 10

\* Math.max(0, Math.round(100 - criticalIssues * 20 - warningIssues * 10))
overallScore(found) ==
    max(0, 100 - countSeverity(found, "Critical") * 20 - countSeverity(found, "Warning") * 10)

errorResponse(status, message) == [status |-> status, error |-> message]

analysisResult(rows, found, summary) ==
    [summary |-> summary,
     totalRows |-> Len(rows),
     totalColumns |-> Len(keys(rows[1])),
     issues |-> found,
     overallScore |-> overallScore(found)]

\* const formData = await request.formData(); if (!file) ...
ReceiveForm ==
    /\ pc = "start"
    /\ IF file = NoFile
       THEN /\ response' = errorResponse(400, "No file provided")
            /\ pc' = "done"
       ELSE /\ pc' = "text"
            /\ UNCHANGED response
    /\ UNCHANGED <<file, data, issues, analysis, pending, replies,
                   asked, requests, locals>>

\* const text = await file.text()
ReadText ==
    /\ pc = "text"
    /\ pc' = "parse"
    /\ UNCHANGED <<file, data, issues, response, analysis, pending,
                   replies, asked, requests, locals>>

\* from the parse to the call of callGeminiAPI, which POST awaits
ParseAndAnalyze ==
    /\ pc = "parse"
    /\ LET invalidJson == ~isCsvFile(file) /\ isJsonFile(file)
                          /\ file.body.t = "syntax-error"
           rows == IF isCsvFile(file) THEN parseCSV(file.body.chars)
                   ELSE IF isJsonFile(file) /\ ~invalidJson THEN asRows(file.body)
                   ELSE <<>>
       IN  IF invalidJson
           THEN /\ response' = errorResponse(400, "Invalid JSON format")
                /\ pc' = "done"
                /\ UNCHANGED <<data, issues>>
           ELSE IF Len(rows) = 0
           THEN /\ response' = errorResponse(400, "No data found in file")
                /\ data' = rows
                /\ pc' = "done"
                /\ UNCHANGED issues
           ELSE IF analysisThrows(rows)
           THEN /\ response' = errorResponse(500, "Failed to analyze file")
                /\ data' = rows
                /\ pc' = "done"
                /\ UNCHANGED issues
           ELSE /\ data' = rows
                /\ issues' = analyzeDataQuality(rows)
                /\ pc' = "summary"
                /\ UNCHANGED response
    /\ UNCHANGED <<file, analysis, pending, replies, asked, requests, locals>>

\* the summary arrives; the score and the result
Respond ==
    /\ pc = "summary"
    /\ response' = [status |-> 200,
                    body |-> analysisResult(data, issues, callGeminiAPI(summaryPrompt(data)))]
    /\ pc' = "done"
    /\ UNCHANGED <<file, data, issues, analysis, pending, replies,
                   asked, requests, locals>>

\* the page's analyzeFile: if (!response.ok) throw ...; setAnalysis(result)
ShowAnalysis ==
    /\ pc = "done"
    /\ pc' = "shown"
    /\ analysis' = IF response.status = 200
                   THEN [shown |-> TRUE, result |-> response.body]
                   ELSE analysis
    /\ UNCHANGED <<file, data, issues, response, pending, replies,
                   asked, requests, locals>>

NextAnalyze == ReceiveForm \/ ReadText \/ ParseAndAnalyze \/ Respond \/ ShowAnalysis

----------------------------------------------------------------------------
(* /api/analyze: POST, several requests in flight.  An invocation of POST   *)
(* runs without interruption from one await to the next; what it holds      *)
(* across the await of the summary call is its own `data` and `issues`.     *)

\* mutant: `data` and `issues` declared once, outside POST
scopeShared(id) == 1

\* let data: any[] = [] and const issues = ... are declared inside POST: the
\* invocation id reads and writes its own
scope(id) == id

NoLocals == [data |-> <<>>, issues |-> <<>>]
NoPrompt == [lead |-> ""]

newRequest(f) ==
    [file |-> f, pc |-> "start", prompt |-> NoPrompt, summary |-> "none",
     response |-> NoResponse]

\* JSON.parse(text) throws, on the branch that calls it
invalidJson(f) == ~isCsvFile(f) /\ isJsonFile(f) /\ f.body.t = "syntax-error"

\* `data` after the parse
parseFile(f) ==
    IF isCsvFile(f) THEN parseCSV(f.body.chars)
    ELSE IF isJsonFile(f) /\ ~invalidJson(f) THEN asRows(f.body)
    ELSE <<>>

ends(r, status, message) ==
    [r EXCEPT !.pc = "done", !.response = errorResponse(status, message)]

\* const formData = await request.formData(); if (!file) ...
ReceiveFormOf(id) ==
    /\ requests[id].pc = "start"
    /\ requests' = [requests EXCEPT ![id] =
                       IF @.file = NoFile
                       THEN ends(@, 400, "No file provided")
                       ELSE [@ EXCEPT !.pc = "text"]]
    /\ UNCHANGED <<file, pc, data, issues, response, analysis, pending,
                   replies, asked, locals>>

\* const text = await file.text()
ReadTextOf(id) ==
    /\ requests[id].pc = "text"
    /\ requests' = [requests EXCEPT ![id].pc = "parse"]
    /\ UNCHANGED <<file, pc, data, issues, response, analysis, pending,
                   replies, asked, locals>>

\* from the parse to the call of callGeminiAPI, which POST awaits
ParseAndAnalyzeOf(id) ==
    /\ requests[id].pc = "parse"
    /\ LET f == requests[id].file
           rows == parseFile(f)
       IN  IF invalidJson(f)
           THEN /\ requests' = [requests EXCEPT ![id] =
                                   ends(@, 400, "Invalid JSON format")]
                /\ UNCHANGED locals
           ELSE IF Len(rows) = 0
           THEN /\ requests' = [requests EXCEPT ![id] =
                                   ends(@, 400, "No data found in file")]
                /\ locals' = [locals EXCEPT ![scope(id)].data = rows]
           ELSE IF analysisThrows(rows)
           THEN /\ requests' = [requests EXCEPT ![id] =
                                   ends(@, 500, "Failed to analyze file")]
                /\ locals' = [locals EXCEPT ![scope(id)].data = rows]
           ELSE /\ requests' = [requests EXCEPT ![id] =
                                   [@ EXCEPT !.pc = "summary",
                                             !.prompt = summaryPrompt(rows),
                                             !.summary = "pending"]]
                /\ locals' = [locals EXCEPT ![scope(id)] =
                                 [data |-> rows, issues |-> analyzeDataQuality(rows)]]
    /\ UNCHANGED <<file, pc, data, issues, response, analysis, pending,
                   replies, asked>>

\* the summary arrives; the score and the result, from the invocation's
\* `data` and `issues`
SummaryResolves(id) ==
    /\ requests[id].pc = "summary"
    /\ LET summary == callGeminiAPI(requests[id].prompt)
           own == locals[scope(id)]
       IN  requests' = [requests EXCEPT ![id] =
               [@ EXCEPT !.pc = "done",
                         !.summary = "resolved",
                         !.response =
                             [status |-> 200,
                              body |-> analysisResult(own.data, own.issues, summary)]]]
    /\ UNCHANGED <<file, pc, data, issues, response, analysis, pending,
                   replies, asked, locals>>

\* the awaited call rejects and POST's catch answers.  The mock of this
\* repository always resolves; the call it stands for can fail.
SummaryRejects(id) ==
    /\ requests[id].pc = "summary"
    /\ requests' = [requests EXCEPT ![id] =
          [ends(@, 500, "Failed to analyze file") EXCEPT !.summary = "rejected"]]
    /\ UNCHANGED <<file, pc, data, issues, response, analysis, pending,
                   replies, asked, locals>>

NextRequests ==
    \/ \E id \in DOMAIN requests : ReceiveFormOf(id)
    \/ \E id \in DOMAIN requests : ReadTextOf(id)
    \/ \E id \in DOMAIN requests : ParseAndAnalyzeOf(id)
    \/ \E id \in DOMAIN requests : SummaryResolves(id)
    \/ \E id \in DOMAIN requests : SummaryRejects(id)

----------------------------------------------------------------------------
(* /api/generate-fix: generateFixCode, POST                                 *)

S_csv == <<"c", "s", "v">>
S_cleaned == <<"_", "c", "l", "e", "a", "n", "e", "d", ".", "c", "s", "v">>
S_deduped == <<"_", "d", "e", "d", "u", "p", "e", "d", ".", "c", "s", "v">>
S_outliersFixed ==
    <<"_", "o", "u", "t", "l", "i", "e", "r", "s", "_", "f", "i", "x", "e", "d", ".", "c", "s", "v">>

\* fileName.split(".").pop()?.toLowerCase()
fileExt(fileName) ==
    LET parts == split(fileName, ".")
    IN  toLowerCase(parts[Len(parts)])

\* String.prototype.replace with a string pattern: the first occurrence
replace(s, pattern, replacement) ==
    IF includes(s, pattern)
    THEN LET i == CHOOSE j \in 0..(Len(s) - Len(pattern)) :
                    /\ SubSeq(s, j + 1, j + Len(pattern)) = pattern
                    /\ \A k \in 0..(j - 1) : SubSeq(s, k + 1, k + Len(pattern)) # pattern
         IN  SubSeq(s, 1, i) \o replacement \o SubSeq(s, i + Len(pattern) + 1, Len(s))
    ELSE s

pandasScript(template, column, fileName, suffix) ==
    [language |-> "python",
     template |-> template,
     column |-> column,
     reads |-> fileName,
     writes |-> replace(fileName, S_dotCsv, suffix)]

sqlStatement(template, column) ==
    [language |-> "sql", template |-> template, column |-> column]

generateFixCode(issue, fileName) ==
    CASE issue.type = "Missing Values" ->
            IF fileExt(fileName) = S_csv
            THEN pandasScript("# Fix missing values in", issue.column, fileName, S_cleaned)
            ELSE sqlStatement("-- SQL fix for missing values in", issue.column)
      [] issue.type = "Duplicate Values" ->
            IF fileExt(fileName) = S_csv
            THEN pandasScript("# Remove duplicates based on", issue.column, fileName, S_deduped)
            ELSE sqlStatement("-- SQL fix for duplicate values in", issue.column)
      [] issue.type = "Outliers" ->
            pandasScript("# Handle outliers in: Calculate IQR", issue.column, fileName,
                         S_outliersFixed)
      [] OTHER ->
            pandasScript("# Generic data cleaning for", issue.column, fileName, S_cleaned)

\* the page's generateFix, up to the fetch: the request carries the issue as
\* shown and file?.name
fixRequest(id, issue, f) ==
    [id |-> id, issue |-> issue, fileName |-> IF f.present THEN Str(f.name) ELSE Undefined]

\* mutant: the issue is matched by its column alone
matchesColumn(i, issue) == i.column = issue.column

\* i.column === issue.column && i.type === issue.type
matchesIssue(i, issue) == i.column = issue.column /\ i.type = issue.type

\* { ...i, fixCode }
withFixCode(i, fixCode) ==
    [key \in DOMAIN i \cup {"fixCode"} |-> IF key = "fixCode" THEN fixCode ELSE i[key]]

\* prev.issues.map((i) => matches ? { ...i, fixCode } : i)
attachFix(shown, issue, fixCode) ==
    [k \in DOMAIN shown |->
        IF matchesIssue(shown[k], issue) THEN withFixCode(shown[k], fixCode) ELSE shown[k]]

\* a click on an issue's fix button: generateFix(issue) sends its request
RequestFix(k) ==
    /\ analysis.shown
    /\ Len(asked) < MaxFixes
    /\ k \in DOMAIN analysis.result.issues
    /\ pending' = pending \cup {fixRequest(Len(asked) + 1, analysis.result.issues[k], file)}
    /\ asked' = Append(asked, k)
    /\ UNCHANGED <<file, pc, data, issues, response, analysis,
                   replies, requests, locals>>

\* /api/generate-fix POST: fileName.split throws on a missing file name
ServeFix(r) ==
    /\ r \in pending
    /\ pending' = pending \ {r}
    /\ replies' = replies \cup
          {[id |-> r.id,
            issue |-> r.issue,
            body |-> IF r.fileName.t = "str"
                     THEN [fixCode |-> generateFixCode(r.issue, r.fileName.s)]
                     ELSE [error |-> "Failed to generate fix"]]}
    /\ UNCHANGED <<file, pc, data, issues, response, analysis, asked,
                   requests, locals>>

\* the response arrives: const { fixCode } = await response.json();
\* setAnalysis((prev) => prev ? { ...prev, issues: ... } : null)
DeliverFix(p) ==
    /\ p \in replies
    /\ replies' = replies \ {p}
    /\ LET fixCode == IF "fixCode" \in DOMAIN p.body THEN p.body.fixCode ELSE Undefined
       IN  analysis' =
               IF analysis.shown
               THEN [analysis EXCEPT !.result.issues = attachFix(@, p.issue, fixCode)]
               ELSE analysis
    /\ UNCHANGED <<file, pc, data, issues, response, pending, asked,
                   requests, locals>>

shownIssues == IF analysis.shown THEN DOMAIN analysis.result.issues ELSE {}

NextFix ==
    \/ \E k \in shownIssues : RequestFix(k)
    \/ \E r \in pending : ServeFix(r)
    \/ \E p \in replies : DeliverFix(p)

----------------------------------------------------------------------------
(* Inputs.                                                                  *)

S_empty == <<>>
S_0 == <<"0">>
S_1 == <<"1">>
S_9 == <<"9">>
S_minus5 == <<"-", "5">>
S_quotes == <<"\"", "\"">>
N_id == <<"i", "d">>
N_Uid == <<"U", "i", "d">>
N_age == <<"a", "g", "e">>
N_dataCsv == <<"d", ".", "c", "s", "v">>
N_dataJson == <<"d", ".", "j", "s", "o", "n">>
N_dataTxt == <<"d", ".", "t", "x", "t">>
N_dataUpper == <<"d", ".", "C", "S", "V">>

TextBody(chars) == [t |-> "text", chars |-> chars]
SyntaxError == [t |-> "syntax-error"]
Array(items) == [t |-> "array", items |-> items]

File(type, name, body) == [present |-> TRUE, type |-> type, name |-> name, body |-> body]
CsvFile(chars) == File("text/csv", N_dataCsv, TextBody(chars))

\* a cell as a CSV text carries it: the empty cell quoted, so that a line
\* holding nothing else is not blank
field(cell) == IF cell = <<>> THEN S_quotes ELSE cell

renderCSV(header, rows) ==
    LET line(cells) == join([i \in DOMAIN cells |-> field(cells[i])], ",")
    IN  join(<<line(header)>> \o [r \in DOMAIN rows |-> line(rows[r])], "\n") \o <<"\n">>

repeat(x, n) == [i \in 1..n |-> x]

\* every text of at most MaxTextLen characters
CsvAlphabet == {"a", ",", "\n", " ", "\""}
ShortTexts == SeqsUpTo(CsvAlphabet, MaxTextLen)

\* one column: freely chosen leading cells, then a repeated filler cell
TallCells == {S_empty, S_null, S_0, S_1, S_9, S_minus5}
TallPads == {S_empty, S_1, S_undefined}
TallTexts ==
    {renderCSV(<<name>>, [i \in DOMAIN prefix |-> <<prefix[i]>>] \o repeat(<<pad>>, n)) :
        <<name, prefix, pad, n>> \in
            {N_Uid} \X SeqsUpTo(TallCells, MaxPrefix) \X TallPads \X (0..MaxPad)}

N_paid == <<"p", "a", "i", "d">>
N_ID == <<"I", "D">>

\* several columns: one leading row, then a repeated filler row; the header
\* is the first columns of one of three header lines, one of which repeats
\* a name
WideCells == {S_empty, S_1}
WideHeaders ==
    {<<N_id, N_Uid, N_paid, N_ID, N_age>>,
     <<N_age, N_id, N_age, N_Uid, N_id>>,
     <<N_id, N_age, N_Uid, N_age, N_ID>>}
WideTexts ==
    UNION {{renderCSV(SubSeq(header, 1, c), <<first>> \o repeat(pad, n)) :
              <<header, first, pad, n>> \in
                  WideHeaders \X [1..c -> WideCells] \X [1..c -> WideCells]
                      \X (1..MaxWidePad)} : c \in 1..MaxCols}

\* "id,age\n1,25\n1,30\n2,\n" and a column holding 1..10
ScenarioTexts ==
    {renderCSV(<<N_id, N_age>>,
               <<<<S_1, <<"2", "5">>>>, <<S_1, <<"3", "0">>>>, <<<<"2">>, S_empty>>>>),
     renderCSV(<<N_age>>,
               <<<<S_1>>, <<<<"2">>>>, <<<<"3">>>>, <<<<"4">>>>, <<<<"5">>>>, <<<<"6">>>>,
                 <<<<"7">>>>, <<<<"8">>>>, <<S_9>>, <<<<"1", "0">>>>>>)}

JsonElements ==
    {Null,
     Num(7),
     Obj(<<[k |-> N_id, v |-> Num(0)]>>),
     Obj(<<[k |-> N_id, v |-> Num(5)]>>),
     Obj(<<[k |-> N_id, v |-> Str(<<"5">>)], [k |-> N_age, v |-> Null]>>),
     Obj(<<[k |-> N_age, v |-> Str(<<"x">>)]>>)}

JsonBodies ==
    {SyntaxError} \cup JsonElements
        \cup {Array(items) : items \in SeqsUpTo(JsonElements, MaxJsonRows)}

AnalyzeFiles ==
    {NoFile}
        \cup {CsvFile(t) : t \in TallTexts \cup WideTexts}
        \cup {File(kind[1], kind[2], TextBody(t)) :
                 kind \in {<<"text/csv", N_dataCsv>>, <<"", N_dataCsv>>,
                           <<"text/csv", N_dataTxt>>, <<"", N_dataTxt>>,
                           <<"", N_dataUpper>>},
                 t \in ScenarioTexts}
        \cup {File(kind[1], kind[2], b) :
                 kind \in {<<"application/json", N_dataJson>>, <<"", N_dataJson>>,
                           <<"application/json", N_dataTxt>>},
                 b \in JsonBodies}

InitRequest(files) ==
    /\ file \in files
    /\ pc = "start"
    /\ data = <<>>
    /\ issues = <<>>
    /\ response = NoResponse
    /\ analysis = NoAnalysis
    /\ pending = {}
    /\ replies = {}
    /\ asked = <<>>
    /\ requests = <<>>
    /\ locals = <<>>

\* every file name of at most MaxNameLen characters
NameAlphabet == {".", "c", "s", "v", "C"}
ShortNames == SeqsUpTo(NameAlphabet, MaxNameLen)

FixTypes == {"Missing Values", "Duplicate Values", "Outliers", "Invalid Format"}

anyIssue(type) ==
    [column |-> N_id,
     severity |-> "Info",
     type |-> type,
     description |-> <<1, "found">>,
     count |-> 1,
     percentage |-> Percentage(1, 1),
     explanation |-> <<"explanation">>,
     recommendation |-> <<"recommendation">>]

\* a page showing one issue of any type, for a file of any short name
InitFix ==
    /\ file \in {File("text/csv", name, TextBody(<<>>)) : name \in ShortNames}
    /\ pc = "shown"
    /\ data = <<>>
    /\ issues \in {<<anyIssue(type)>> : type \in FixTypes}
    /\ response = [status |-> 200,
                   body |-> [summary |-> "", totalRows |-> 1, totalColumns |-> 1,
                             issues |-> issues, overallScore |-> 100]]
    /\ analysis = [shown |-> TRUE, result |-> response.body]
    /\ pending = {}
    /\ replies = {}
    /\ asked = <<>>
    /\ requests = <<>>
    /\ locals = <<>>

UiFiles ==
    {NoFile, File("application/json", N_dataJson, SyntaxError)}
        \cup {File(kind[1], kind[2], TextBody(t)) :
                 kind \in {<<"text/csv", N_dataCsv>>, <<"text/csv", N_dataTxt>>},
                 t \in ScenarioTexts
                     \cup {renderCSV(<<N_id, N_Uid>>,
                                     <<<<S_1, S_empty>>, <<S_1, S_1>>, <<S_9, S_1>>,
                                       <<S_1, S_1>>, <<S_1, S_1>>>>)}}

InitCSV == InitRequest({CsvFile(t) : t \in ShortTexts})

InitAnalyze == InitRequest(AnalyzeFiles)

SpecCSV == InitCSV /\ [][NextAnalyze]_vars

SpecAnalyze == InitAnalyze /\ [][NextAnalyze]_vars

SpecFix == InitFix /\ [][NextFix]_vars

InitUI == InitRequest(UiFiles)

SpecUI == InitUI /\ [][NextAnalyze \/ NextFix]_vars

\* files of every outcome of an analyze request
RequestFiles ==
    {NoFile,
     File("application/json", N_dataJson, SyntaxError),
     File("application/json", N_dataJson, Null),
     File("application/json", N_dataJson, Obj(<<[k |-> N_id, v |-> Num(0)]>>)),
     File("", N_dataTxt, TextBody(<<"a", "\n", "a", "\n">>))}
        \cup {CsvFile(t) : t \in ScenarioTexts}

\* requests received together, none of them started
InitRequests ==
    /\ file = NoFile
    /\ pc = "start"
    /\ data = <<>>
    /\ issues = <<>>
    /\ response = NoResponse
    /\ analysis = NoAnalysis
    /\ pending = {}
    /\ replies = {}
    /\ asked = <<>>
    /\ requests \in [1..MaxRequests -> {newRequest(f) : f \in RequestFiles}]
    /\ locals = [id \in 1..MaxRequests |-> NoLocals]

SpecRequests == InitRequests /\ [][NextRequests]_vars

----------------------------------------------------------------------------
(* Notions the claims are stated in.                                        *)

Answered == pc \in {"done", "shown"}
Returned == Answered /\ response.status = 200
ReturnedIssues == response.body.issues
Columns == keys(data[1])

Indices(found, column, type) ==
    {i \in DOMAIN found : found[i].column = column /\ found[i].type = type}

\* a cell that is absent, null, the empty string or a literal marker
MarkedMissing(v) == v \in {Undefined, Null, Str(<<>>), Str(S_null), Str(S_undefined)}

MissingRows(column) == {r \in DOMAIN data : MarkedMissing(get(data[r], column))}
PresentRows(column) == DOMAIN data \ MissingRows(column)
DistinctPresent(column) == {get(data[r], column) : r \in PresentRows(column)}
RepeatedCount(column) == Cardinality(PresentRows(column)) - Cardinality(DistinctPresent(column))

Clamp(x, lo, hi) == IF x < lo THEN lo ELSE IF x > hi THEN hi ELSE x

Tally(found, severity) == Cardinality({i \in DOMAIN found : found[i].severity = severity})

RawScore(found) == 100 - 20 * Tally(found, "Critical") - 10 * Tally(found, "Warning")

\* C1: every returned AnalysisResult has overallScore = clamp(100 - 20*critical
\* - 10*warning, 0, 100) over its own issue list: an integer in 0..100, 100
\* without issues, 50 for 2 Critical and 1 Warning.
C1_OverallScore ==
    Returned =>
        LET found == ReturnedIssues
            score == response.body.overallScore
        IN  /\ score = Clamp(RawScore(found), 0, 100)
            /\ score \in 0..100
            /\ found = <<>> => score = 100
            /\ Tally(found, "Critical") = 2 /\ Tally(found, "Warning") = 1 => score = 50

\* a result whose issues weigh more than 100, so that the score is clamped
C1_Witness == Returned /\ RawScore(ReturnedIssues) < 0 /\ response.body.overallScore = 0

\* a result with 2 Critical issues and 1 Warning issue
C1_FiftyReached ==
    Returned /\ Tally(ReturnedIssues, "Critical") = 2 /\ Tally(ReturnedIssues, "Warning") = 1

\* C2: a column has exactly one Missing Values issue iff some row's cell is
\* absent, empty or a "null"/"undefined" marker, and no other cell counts as
\* missing; the issue's count is that number of rows, its severity Critical
\* above 20 percent of the rows, Warning above 5 percent, Info otherwise.
C2_MissingValues ==
    Returned =>
        \A c \in Range(Columns) :
            LET m == Cardinality(MissingRows(c))
                at == Indices(ReturnedIssues, c, "Missing Values")
            IN  /\ Cardinality(at) = IF m > 0 THEN 1 ELSE 0
                /\ \A i \in at :
                      /\ ReturnedIssues[i].count = m
                      /\ ReturnedIssues[i].severity =
                            IF 100 * m > 20 * Len(data) THEN "Critical"
                            ELSE IF 100 * m > 5 * Len(data) THEN "Warning"
                            ELSE "Info"

\* C3: a column whose name contains "id" in any case has a Duplicate Values
\* issue iff its non-missing cells repeat a value, non-missing as the
\* missing-values detector has it; the issue is Critical, counts the
\* repetitions and gives them as a percentage of the rows.  Other columns
\* never have a Duplicate Values issue.
C3_DuplicateValues ==
    Returned =>
        \A c \in Range(Columns) :
            LET d == RepeatedCount(c)
                at == Indices(ReturnedIssues, c, "Duplicate Values")
            IN  IF \E i \in 1..(Len(c) - 1) : c[i] \in {"i", "I"} /\ c[i + 1] \in {"d", "D"}
                THEN /\ Cardinality(at) = IF d > 0 THEN 1 ELSE 0
                     /\ \A i \in at :
                           /\ ReturnedIssues[i].severity = "Critical"
                           /\ ReturnedIssues[i].count = d
                           /\ ReturnedIssues[i].percentage.num = 100 * d
                           /\ ReturnedIssues[i].percentage.den = Len(data)
                ELSE at = {}

\* C4: a column whose every cell is absent, empty or a marker has a Missing
\* Values issue of 100 percent and severity Critical, and neither a Duplicate
\* Values nor an Outliers issue.
C4_AllMissingColumn ==
    Returned =>
        \A c \in Range(Columns) :
            MissingRows(c) = DOMAIN data =>
                /\ \E i \in Indices(ReturnedIssues, c, "Missing Values") :
                      /\ ReturnedIssues[i].percentage.num = 100 * ReturnedIssues[i].percentage.den
                      /\ ReturnedIssues[i].severity = "Critical"
                /\ Indices(ReturnedIssues, c, "Duplicate Values") = {}
                /\ Indices(ReturnedIssues, c, "Outliers") = {}

\* the numeric-parseable values of a column, by row
NumericRows(column) == {r \in DOMAIN data : ~parseFloat(get(data[r], column)).nan}
NumericAt(column, r) == parseFloat(get(data[r], column)).n

\* the value at 0-based position k of the column's numeric values in
\* ascending order: k values or fewer lie below it, more than k at or below
Ranked(column, k) ==
    CHOOSE v \in {NumericAt(column, r) : r \in NumericRows(column)} :
        /\ Cardinality({r \in NumericRows(column) : NumericAt(column, r) < v}) <= k
        /\ Cardinality({r \in NumericRows(column) : NumericAt(column, r) <= v}) > k

\* rows whose value v has v < Q1 - 1.5*IQR or v > Q3 + 1.5*IQR, Q1 and Q3 at
\* positions floor(0.25*n) and floor(0.75*n)
OutlierRows(column) ==
    LET n == Cardinality(NumericRows(column))
        Q1 == Ranked(column, n \div 4)
        Q3 == Ranked(column, (3 * n) \div 4)
        IQR == Q3 - Q1
    IN  {r \in NumericRows(column) :
            \/ 2 * NumericAt(column, r) < 2 * Q1 - 3 * IQR
            \/ 2 * NumericAt(column, r) > 2 * Q3 + 3 * IQR}

OneToTen(column) ==
    /\ Len(data) = 10
    /\ \A r \in DOMAIN data : r \in NumericRows(column) /\ NumericAt(column, r) = r

\* C5: a column with n >= 1 numeric values has an Outliers issue iff some
\* value lies outside [Q1 - 1.5*IQR, Q3 + 1.5*IQR] for the nearest-rank
\* quartiles; the issue counts those values, gives them as a percentage of
\* n, and is Warning above 10 percent and Info otherwise.  A column without
\* numeric values, a single-row dataset and the column 1..10 have none.
C5_Outliers ==
    Returned =>
        \A c \in Range(Columns) :
            LET n == Cardinality(NumericRows(c))
                k == IF n >= 1 THEN Cardinality(OutlierRows(c)) ELSE 0
                at == Indices(ReturnedIssues, c, "Outliers")
            IN  /\ Cardinality(at) = IF k > 0 THEN 1 ELSE 0
                /\ \A i \in at :
                      /\ ReturnedIssues[i].count = k
                      /\ ReturnedIssues[i].percentage.num = 100 * k
                      /\ ReturnedIssues[i].percentage.den = n
                      /\ ReturnedIssues[i].severity = IF 100 * k > 10 * n THEN "Warning" ELSE "Info"
                /\ (Len(data) = 1 \/ OneToTen(c)) => at = {}

\* an Info outlier issue of a column whose rows are not all numeric
C5_Witness ==
    /\ Returned
    /\ \E i \in DOMAIN ReturnedIssues :
          /\ ReturnedIssues[i].type = "Outliers"
          /\ ReturnedIssues[i].severity = "Info"
          /\ ReturnedIssues[i].percentage.den < Len(data)

\* a Warning outlier issue
C5_WarningReached ==
    /\ Returned
    /\ \E i \in DOMAIN ReturnedIssues :
          ReturnedIssues[i].type = "Outliers" /\ ReturnedIssues[i].severity = "Warning"

\* the column 1..10 has been analysed
C5_OneToTenReached == Returned /\ \E c \in Range(Columns) : OneToTen(c)

DetectorRank(type) ==
    CASE type = "Missing Values" -> 1
      [] type = "Duplicate Values" -> 2
      [] type = "Outliers" -> 3

ColumnRank(column) == CHOOSE k \in DOMAIN Columns : Columns[k] = column

\* C6 as stated: the issues are ordered by detector, and within one detector
\* by column.
C6_DetectorThenColumn ==
    Returned =>
        \A i, j \in DOMAIN ReturnedIssues :
            i < j =>
                \/ DetectorRank(ReturnedIssues[i].type) < DetectorRank(ReturnedIssues[j].type)
                \/ /\ ReturnedIssues[i].type = ReturnedIssues[j].type
                   /\ ColumnRank(ReturnedIssues[i].column) < ColumnRank(ReturnedIssues[j].column)

\* C6 as amended: the issues are ordered by column, in the key order of the
\* first row, and within one column by detector (Missing Values, Duplicate
\* Values, Outliers).
C6_ColumnThenDetector ==
    Returned =>
        \A i, j \in DOMAIN ReturnedIssues :
            i < j =>
                \/ ColumnRank(ReturnedIssues[i].column) < ColumnRank(ReturnedIssues[j].column)
                \/ /\ ReturnedIssues[i].column = ReturnedIssues[j].column
                   /\ DetectorRank(ReturnedIssues[i].type) < DetectorRank(ReturnedIssues[j].type)

\* a later detector's issue of an earlier column before an earlier detector's
\* issue of a later column, and two issues of one column
C6_Witness ==
    /\ Returned
    /\ \E i, j \in DOMAIN ReturnedIssues :
          /\ i < j
          /\ DetectorRank(ReturnedIssues[i].type) > DetectorRank(ReturnedIssues[j].type)
    /\ \E i, j \in DOMAIN ReturnedIssues :
          i < j /\ ReturnedIssues[i].column = ReturnedIssues[j].column

\* the lines of a text, by the position of their first character
LineStarts(text) == {1} \cup {i + 1 : i \in {j \in DOMAIN text : text[j] = "\n"}}
LineEnd(text, p) ==
    IF \E j \in p..Len(text) : text[j] = "\n"
    THEN (CHOOSE j \in p..Len(text) : text[j] = "\n" /\ \A k \in p..(j - 1) : text[k] # "\n") - 1
    ELSE Len(text)
Line(text, p) == SubSeq(text, p, LineEnd(text, p))
NonBlank(text) == {p \in LineStarts(text) : \E c \in Range(Line(text, p)) : c \notin Whitespace}
HeaderStart(text) == CHOOSE p \in NonBlank(text) : \A q \in NonBlank(text) : p <= q
FieldCount(line) == 1 + Cardinality({i \in DOMAIN line : line[i] = ","})
Mismatching(text) ==
    {p \in NonBlank(text) \ {HeaderStart(text)} :
        FieldCount(Line(text, p)) # FieldCount(Line(text, HeaderStart(text)))}
Kept(text) == (NonBlank(text) \ {HeaderStart(text)}) \ Mismatching(text)

\* C7: of a CSV text with a non-blank line, parseCSV returns as many rows
\* as it has non-blank lines, less the header and less the lines whose
\* field count differs from the header's; the rows are in line order, each
\* has exactly the header's columns, and no line makes the request fail.
C7_ParseCSV ==
    (Answered /\ file.present /\ isCsvFile(file) /\ NonBlank(file.body.chars) # {}) =>
        LET text == file.body.chars
            header == cleanFields(Line(text, HeaderStart(text)))
        IN  /\ Len(data) = Cardinality(NonBlank(text)) - 1 - Cardinality(Mismatching(text))
            /\ response.status # 500
            /\ \A k \in DOMAIN data :
                  \E p \in Kept(text) :
                      /\ Cardinality({q \in Kept(text) : q < p}) = k - 1
                      /\ Range(keys(data[k])) = Range(header)
                      /\ Len(keys(data[k])) = Cardinality(Range(header))
                      /\ \A j \in DOMAIN header :
                            (\A l \in (j + 1)..Len(header) : header[l] # header[j]) =>
                                get(data[k], header[j]) = Str(cleanFields(Line(text, p))[j])

\* a text with a dropped line before a kept line
C7_Witness ==
    /\ Answered /\ file.present /\ isCsvFile(file)
    /\ NonBlank(file.body.chars) # {}
    /\ \E p \in Mismatching(file.body.chars) : \E q \in Kept(file.body.chars) : p < q
    /\ Len(data) >= 1

\* the rows POST parses from the file
ParsedRows ==
    IF isCsvFile(file) THEN parseCSV(file.body.chars)
    ELSE IF isJsonFile(file) /\ file.body.t # "syntax-error" THEN asRows(file.body)
    ELSE <<>>

\* C8: Analyze ends in one of three ways: "Invalid JSON format" for JSON
\* input that is not valid JSON, "No data found in file" for input that
\* parses to zero rows or is neither CSV nor JSON, and otherwise a full
\* AnalysisResult whose totalRows is the number of parsed rows.
C8_Outcome ==
    (Answered /\ file.present) =>
        IF ~isCsvFile(file) /\ isJsonFile(file) /\ file.body.t = "syntax-error"
        THEN response = errorResponse(400, "Invalid JSON format")
        ELSE IF ParsedRows = <<>>
        THEN response = errorResponse(400, "No data found in file")
        ELSE /\ response.status = 200
             /\ response.body.totalRows = Len(ParsedRows)
             /\ response.body.issues = issues

\* the file name ends in ".csv", in any letter case
HasCsvExtension(name) ==
    Len(name) >= 4 /\ toLowerCase(SubSeq(name, Len(name) - 3, Len(name))) = S_dotCsv

\* C9: GenerateFix never fails and picks its template by the issue's type
\* and the file name's extension: for Missing Values and Duplicate Values
\* the pandas script when the extension is .csv and the SQL statement
\* otherwise, for Outliers the IQR script and for any other type the generic
\* script, whatever the extension.
C9_TemplateChoice ==
    \A p \in replies :
        /\ "fixCode" \in DOMAIN p.body
        /\ LET code == p.body.fixCode
               csv == HasCsvExtension(file.name)
           IN  /\ code.column = p.issue.column
               /\ CASE p.issue.type = "Missing Values" ->
                          IF csv
                          THEN code.language = "python" /\ code.template = "# Fix missing values in"
                          ELSE code.language = "sql"
                               /\ code.template = "-- SQL fix for missing values in"
                    [] p.issue.type = "Duplicate Values" ->
                          IF csv
                          THEN code.language = "python"
                               /\ code.template = "# Remove duplicates based on"
                          ELSE code.language = "sql"
                               /\ code.template = "-- SQL fix for duplicate values in"
                    [] p.issue.type = "Outliers" ->
                          code.language = "python"
                          /\ code.template = "# Handle outliers in: Calculate IQR"
                    [] OTHER ->
                          code.language = "python"
                          /\ code.template = "# Generic data cleaning for"

\* the fix requests whose response the page has handled
Delivered ==
    {id \in DOMAIN asked : id \notin {r.id : r \in pending} \cup {p.id : p \in replies}}

WithoutFixCode(i) == [key \in DOMAIN i \ {"fixCode"} |-> i[key]]

\* C10: whatever the order of the responses, an issue carries a fixCode iff
\* the response to a request for that issue has arrived, the fixCode is the
\* one generated for its own column and type, and the list's length, order
\* and other fields stay those of the analysis; so once every response has
\* arrived each requested issue has its own fixCode and no other issue has
\* one.
C10_FixesAttached ==
    analysis.shown =>
        LET shown == analysis.result.issues
            original == response.body.issues
        IN  /\ DOMAIN shown = DOMAIN original
            /\ \A k \in DOMAIN shown :
                  /\ WithoutFixCode(shown[k]) = original[k]
                  /\ "fixCode" \in DOMAIN shown[k] <=> \E id \in Delivered : asked[id] = k
                  /\ "fixCode" \in DOMAIN shown[k] =>
                        shown[k].fixCode = generateFixCode(original[k], file.name)

\* every response has arrived, for requests on two issues of one column and
\* one of another, with an issue left that was not requested
C10_Witness ==
    /\ analysis.shown
    /\ pending = {} /\ replies = {}
    /\ \E a, b \in Range(asked) :
          /\ a # b
          /\ response.body.issues[a].column = response.body.issues[b].column
    /\ \E a, b \in DOMAIN analysis.result.issues :
          /\ "fixCode" \in DOMAIN analysis.result.issues[a]
          /\ "fixCode" \notin DOMAIN analysis.result.issues[b]

\* C11: a request returns nothing before it ends; it returns an
\* AnalysisResult only once its summary call has resolved, and the result is
\* the one computed from the rows of its own file, whatever the other
\* requests did meanwhile; a request whose summary call rejects ends with
\* the failure response, which carries no issues, score or summary.
C11_RequestOutcome ==
    \A id \in DOMAIN requests :
        LET r == requests[id]
            rows == parseFile(r.file)
        IN  /\ r.pc # "done" => r.response = NoResponse
            /\ r.response.status = 200 <=> r.summary = "resolved"
            /\ r.summary = "resolved" =>
                  r.response.body =
                      analysisResult(rows, analyzeDataQuality(rows),
                                     callGeminiAPI(summaryPrompt(rows)))
            /\ r.summary = "rejected" =>
                  /\ r.pc = "done"
                  /\ r.response = errorResponse(500, "Failed to analyze file")
                  /\ DOMAIN r.response \cap
                         {"body", "summary", "issues", "overallScore"} = {}

\* two requests for different files, both parsed to rows: one has returned
\* its result, the other's summary call has rejected
C11_Witness ==
    \E a, b \in DOMAIN requests :
        /\ requests[a].file # requests[b].file
        /\ requests[a].summary = "resolved" /\ requests[a].response.status = 200
        /\ requests[b].summary = "rejected" /\ requests[b].response.status = 500
        /\ locals[a].data # locals[b].data

IssueTypes == {"Missing Values", "Duplicate Values", "Outliers"}

IssuesOf(found, column) == {i \in DOMAIN found : found[i].column = column}

\* C12: in every returned issue list each (column, type) pair occurs at most
\* once and each column has at most three issues, of the types Missing
\* Values, Duplicate Values and Outliers; every issue has count >= 1 and a
\* percentage above 0 and at most 100, and its column is a key of the first
\* row; so the page's match of an issue of the list on column and type
\* selects that issue and no other.
C12_IssueList ==
    Returned =>
        LET found == ReturnedIssues
        IN  /\ \A c \in Range(Columns) :
                  /\ Cardinality(IssuesOf(found, c)) <= 3
                  /\ \A type \in IssueTypes : Cardinality(Indices(found, c, type)) <= 1
            /\ \A i \in DOMAIN found :
                  /\ found[i].type \in IssueTypes
                  /\ found[i].column \in Range(Columns)
                  /\ found[i].count >= 1
                  /\ found[i].percentage.den > 0
                  /\ found[i].percentage.num > 0
                  /\ found[i].percentage.num <= 100 * found[i].percentage.den
                  /\ {k \in DOMAIN found : matchesIssue(found[k], found[i])} = {i}

\* a list with the three issues of one column
C12_Witness ==
    /\ Returned
    /\ \E c \in Range(Columns) :
          /\ Cardinality(IssuesOf(ReturnedIssues, c)) = 3
          /\ \A type \in IssueTypes : Indices(ReturnedIssues, c, type) # {}

====
